---- MODULE Spec2Model ----
(***************************************************************************)
(* Model of the bridge API server of src/src/main.rs: the five proof/head  *)
(* routes, the upstream calls each one makes, and the response each one    *)
(* shapes.  One request is followed from its arrival to its response (or   *)
(* to the handler's panic); upstream behaviour is the model's input.       *)
(***************************************************************************)
EXTENDS Integers, Sequences, FiniteSets, TLC

VARIABLES
    overflow_checks,  \* build profile: TRUE when integer overflow panics (debug)
    handler,          \* route being served, "idle" between requests
    pc,               \* the handler's position (its current await point)
    req,              \* the extracted request parameters
    da_task,          \* get_eth_proof: the spawned kate_queryDataProofV2 task
    succinct_task,    \* get_eth_proof: the spawned relay task
    pending,          \* the upstream call a sequential handler is awaiting
    locals,           \* values a handler keeps across its await points
    calls,            \* upstream calls issued for the current request, in order
    resp              \* the response of the current request

vars == <<overflow_checks, handler, pc, req, da_task, succinct_task, pending,
          locals, calls, resp>>

(***************************************************************************)
(* Bounds of the model.                                                    *)
(***************************************************************************)
\* largest number of storage-proof entries an eth_getProof answer carries
MaxStorageProofs == 3

(***************************************************************************)
(* Result and Option values.                                               *)
(***************************************************************************)
Ok(x) == [tag |-> "Ok", v |-> x]
Err(e) == [tag |-> "Err", e |-> e]
Some(x) == [some |-> TRUE, v |-> x]
None == [some |-> FALSE]

(***************************************************************************)
(* Hex strings are sequences of one-character strings; byte buffers are    *)
(* sequences of 0..255; a u64 is kept as its 8 little-endian bytes, so     *)
(* that 64-bit arithmetic keeps its width.                                 *)
(***************************************************************************)
HexDigits == <<"0", "1", "2", "3", "4", "5", "6", "7",
               "8", "9", "a", "b", "c", "d", "e", "f">>

\* hex::encode of one byte: two lower-case digits, high nibble first
HexByte(b) == <<HexDigits[(b \div 16) + 1], HexDigits[(b % 16) + 1]>>

\* hex::encode: two digits per byte, in order
HexEncode(bytes) ==
    [i \in 1..(2 * Len(bytes)) |-> HexByte(bytes[(i + 1) \div 2])[2 - (i % 2)]]

\* the value of a hex digit (either case), -1 for whitespace that from_hex
\* skips, -2 for any other character
HexVal(c) ==
    CASE c \in {"0"} -> 0 [] c = "1" -> 1 [] c = "2" -> 2 [] c = "3" -> 3
      [] c = "4" -> 4 [] c = "5" -> 5 [] c = "6" -> 6 [] c = "7" -> 7
      [] c = "8" -> 8 [] c = "9" -> 9
      [] c \in {"a", "A"} -> 10 [] c \in {"b", "B"} -> 11
      [] c \in {"c", "C"} -> 12 [] c \in {"d", "D"} -> 13
      [] c \in {"e", "E"} -> 14 [] c \in {"f", "F"} -> 15
      [] c \in {" ", "\r", "\n", "\t"} -> -1
      [] OTHER -> -2

IsHexDigit(c) == HexVal(c) >= 0

\* from_hex_raw: whitespace is skipped, any other non-hex character is an
\* error; `modulus` starts at len % 2, so the k-th digit completes a byte when
\* modulus + k is even, and the byte is the last two digits shifted in (the
\* u8 buffer starts at 0 and drops what is shifted out)
FromHexRaw(v) ==
    IF \E i \in 1..Len(v) : HexVal(v[i]) = -2 THEN Err("InvalidHex")
    ELSE LET digits == SelectSeq(v, IsHexDigit)
             modulus == Len(v) % 2
             pos == (modulus + Len(digits)) \div 2
             Digit(k) == IF k < 1 THEN 0 ELSE HexVal(digits[k])
         IN  Ok([j \in 1..pos |->
                   (Digit(2 * j - modulus - 1) * 16) + Digit(2 * j - modulus)])

HasPrefix0x(v) == Len(v) >= 2 /\ v[1] = "0" /\ v[2] = "x"

\* sp_core::bytes::from_hex: the 0x prefix is optional, any non-hex character
\* is an error; the buffer is (digits + 1) / 2 bytes, zero where never written
FromHex(s) ==
    LET v == IF HasPrefix0x(s) THEN SubSeq(s, 3, Len(s)) ELSE s
        r == FromHexRaw(v)
        len == (Len(v) + 1) \div 2
    IN  IF r.tag = "Err" THEN r
        ELSE Ok([j \in 1..len |-> IF j <= Len(r.v) THEN r.v[j] ELSE 0])

\* <u64 as Decode>::decode: the first 8 bytes, little-endian; fewer is an error
DecodeU64(bytes) ==
    IF Len(bytes) < 8 THEN Err("Not enough data to fill buffer")
    ELSE Ok(SubSeq(bytes, 1, 8))

\* a - b on little-endian bytes: the low 64 bits and the final borrow
RECURSIVE SubBytes(_, _, _)
SubBytes(a, b, borrow) ==
    IF a = <<>> THEN [val |-> <<>>, borrow |-> borrow]
    ELSE LET d == Head(a) - Head(b) - borrow
             rest == SubBytes(Tail(a), Tail(b), IF d < 0 THEN 1 ELSE 0)
         IN  [val |-> <<d % 256>> \o rest.val, borrow |-> rest.borrow]

\* a < b for two u64
LtU64(a, b) == SubBytes(a, b, 0).borrow = 1

\* u64 `now - timestamp`: panics when overflow checks are on and the result
\* would be negative, wraps modulo 2^64 otherwise
SubU64(a, b, checks) ==
    LET r == SubBytes(a, b, 0) IN
    IF r.borrow = 1 /\ checks THEN Err("attempt to subtract with overflow")
    ELSE Ok(r.val)

(***************************************************************************)
(* Storage keys.                                                           *)
(***************************************************************************)
\* sp_io::hashing::twox_128 of the three names the server hashes
Twox128(name) ==
    CASE name = "Succinct" ->
           <<143, 37, 75, 217, 241, 127, 131, 45, 232, 61, 64, 158, 75, 14, 169, 146>>
      [] name = "Head" ->
           <<5, 254, 82, 194, 4, 87, 80, 195, 196, 146, 204, 220, 246, 46, 43, 156>>
      [] name = "Timestamps" ->
           <<212, 135, 3, 189, 214, 233, 162, 207, 215, 14, 169, 158, 121, 254, 114, 232>>

\* "0x" + hex(twox_128(pallet)) + hex(twox_128(item))
PalletKey(pallet, item) ==
    <<"0", "x">> \o HexEncode(Twox128(pallet)) \o HexEncode(Twox128(item))

HeadKey == PalletKey("Succinct", "Head")

\* &s[2..]: panics when the string has fewer than two characters
SliceFrom2(s) ==
    IF Len(s) < 2 THEN Err("byte index 2 is out of bounds")
    ELSE Ok(SubSeq(s, 3, Len(s)))

\* TimestampKey without the sub-key: the Timestamps prefix alone
TimestampKeyNoSubKey(slot_storage_response) ==
    LET sub == SliceFrom2(slot_storage_response) IN
    IF sub.tag = "Err" THEN sub
    ELSE Ok(PalletKey("Succinct", "Timestamps"))

\* the key of the second state_getStorage request
TimestampKey(slot_storage_response) ==
    LET sub == SliceFrom2(slot_storage_response) IN
    IF sub.tag = "Err" THEN sub
    ELSE Ok(PalletKey("Succinct", "Timestamps") \o sub.v)

\* keccak256(message_id as 32 big-endian bytes ++ 1 as 32 big-endian bytes),
\* kept as the term it hashes
MappingSlotKey(message_id) == <<"keccak256", message_id, 1>>

(***************************************************************************)
(* Responses.                                                              *)
(***************************************************************************)
OK == 200
BAD_REQUEST == 400
NOT_FOUND == 404
INTERNAL_SERVER_ERROR == 500

ShortCache == "max-age=300, must-revalidate"
LongCache == "public, max-age=31536000"
NoCacheHeader == "(none)"

\* a (StatusCode, [Cache-Control], Json) tuple turned into a response
Response(status, cache, body) ==
    [kind |-> "sent", status |-> status, cache |-> cache, body |-> body]

\* no response yet
NoResponse == [kind |-> "none"]

\* the handler panicked: the request's task unwinds and no response is written
Aborted(msg) == [kind |-> "aborted", panic |-> msg]

\* err.to_string() of the errors the handlers report
ErrToString(e) ==
    CASE e = "Call" -> "ErrorObject: unknown block or index"
      [] e = "Transport" -> "Networking or low-level protocol error"
      [] e = "RequestTimeout" -> "Request timeout"
      [] e = "ParseError" -> "Parse error"
      [] e = "JoinError" -> "task was cancelled"
      [] e = "send" -> "error sending request for url"
      [] e = "decode" -> "error decoding response body"
      [] OTHER -> e

ErrorBody(msg) == [error |-> msg]

(***************************************************************************)
(* Upstream calls.  `up` is how the upstream behaves for one call.         *)
(***************************************************************************)
\* the clients of AppState that carry a request timeout: the two jsonrpsee
\* HttpClientBuilder::default() clients do (the builder's default), the
\* reqwest Client::builder().brotli(true) client sets none
HasTimeout(client) == client \in {"avail_client", "ethereum_client"}

Call(client, method, params, up) ==
    [client |-> client, method |-> method, params |-> params, up |-> up]

NoCall == [client |-> "none"]

\* the awaited call completes: the upstream answers, or the timeout fires
Settles(call) == call.up.tag # "hang" \/ HasTimeout(call.client)

\* HttpClient::request(..).await
RpcRequest(call) ==
    CASE call.up.tag = "result" -> Ok(call.up.v)
      [] call.up.tag = "error_object" -> Err("Call")
      [] call.up.tag = "unreachable" -> Err("Transport")
      [] call.up.tag = "malformed" -> Err("ParseError")
      [] call.up.tag = "hang" -> Err("RequestTimeout")

\* request_client.get(url).send().await
HttpSend(call) ==
    CASE call.up.tag = "unreachable" -> Err("send")
      [] OTHER -> Ok(call.up)

\* resp.json::<T>().await on a response that arrived
HttpJson(arrived) ==
    CASE arrived.tag = "body" -> Ok(arrived.v)
      [] OTHER -> Err("decode")

RpcFailures == {[tag |-> t] : t \in {"error_object", "unreachable", "malformed", "hang"}}
HttpFailures == {[tag |-> t] : t \in {"unreachable", "undecodable", "hang"}}

(***************************************************************************)
(* Request parameters and upstream payloads the model draws from.          *)
(***************************************************************************)
BlockHashes == {"0xabcd", "0xbeef"}
Indexes == {3}
MessageIds == {1, 7}
Slots == {100, 101}

\* KateQueryDataProofV2Response
KateResponses ==
    { [data_proof |-> [data_root |-> "dataRoot", blob_root |-> "blobRoot",
                       bridge_root |-> "bridgeRoot", proof |-> p,
                       leaf_index |-> 3, leaf |-> "leaf"]]
        : p \in {<<>>, <<"leafProof1", "leafProof2">>} }

\* SuccinctAPIData
SuccinctData ==
    [range_hash |-> "rangeHash", data_commitment |-> "dataCommitment",
     merkle_branch |-> <<"branch1">>, index |-> 5]

\* SuccinctAPIResponse: every field is optional
SuccinctResponses ==
    { [data |-> d, error |-> e, success |-> s]
        : d \in {None, Some(SuccinctData)},
          e \in {None, Some("range not found")},
          s \in {None, Some(TRUE), Some(FALSE)} }

\* BeaconAPIResponse
BeaconResponses ==
    { [status |-> st, data |-> [exec_block_number |-> n]]
        : st \in {"OK", "ERROR: slot not found"}, n \in {0, 500} }

\* RangeBlocksAPIResponse
RangeResponses == { [data |-> [start |-> 10, end |-> e]] : e \in {20, 30} }

\* StorageProof entries and AccountStorageProofResponse
StorageProofEntry(k) == [proof |-> <<"node", k>>]

AccountStorageProofResponses ==
    { [account_proof |-> <<"account1", "account2">>,
       storage_proof |-> [i \in 1..n |-> StorageProofEntry(base + i)]]
        : n \in 0..MaxStorageProofs, base \in {0, 10} }

\* raw SCALE storage values as state_getStorage returns them
HeadSlot100 == <<"0", "x", "6", "4", "0", "0", "0", "0", "0", "0", "0", "0", "0", "0", "0", "0", "0", "0">>
HeadSlot101 == <<"0", "x", "6", "5", "0", "0", "0", "0", "0", "0", "0", "0", "0", "0", "0", "0", "0", "0">>
HeadShort == <<"0", "x", "6", "4">>
HeadNonHex == <<"0", "x", "6", "g", "0", "0", "0", "0", "0", "0", "0", "0", "0", "0", "0", "0", "0", "0">>
HeadNoPrefix == <<"6", "4", "0", "0", "0", "0", "0", "0", "0", "0", "0", "0", "0", "0", "0", "0">>
HeadOneChar == <<"0">>
HeadEmpty == <<>>
TsPast == <<"0", "x", "0", "0", "f", "1", "5", "3", "6", "5", "0", "0", "0", "0", "0", "0", "0", "0">>
TsFuture == <<"0", "x", "9", "0", "f", "2", "5", "3", "6", "5", "0", "0", "0", "0", "0", "0", "0", "0">>
TsShort == <<"0", "x", "0", "0", "f", "1", "5", "3", "6", "5">>
TsNonHex == <<"0", "x", "0", "0", "f", "1", "5", "3", "6", "5", "0", "0", "g", "0", "0", "0", "0", "0">>
TsNoPrefix == <<"0", "0", "f", "1", "5", "3", "6", "5", "0", "0", "0", "0", "0", "0", "0", "0">>

HeadStorageValues ==
    {HeadSlot100, HeadSlot101, HeadShort, HeadNonHex, HeadNoPrefix, HeadOneChar,
     HeadEmpty}
TimestampStorageValues == {TsPast, TsFuture, TsShort, TsNonHex, TsNoPrefix}

\* Utc::now().timestamp() as u64: 1700000000 and 1700000360
Nows == { <<0, 241, 83, 101, 0, 0, 0, 0>>, <<104, 242, 83, 101, 0, 0, 0, 0>> }

(***************************************************************************)
(* get_eth_proof: GET /eth/proof/:block_hash?index=N                       *)
(***************************************************************************)
\* a match arm either returns a response from the handler or yields a value
Return(r) == [ret |-> TRUE, resp |-> r]
Yield(x) == [ret |-> FALSE, v |-> x]

\* match data_proof { .. }: the JoinHandle's result around the RPC result
DataProofMatch(data_proof) ==
    IF data_proof.tag = "Ok"
    THEN IF data_proof.v.tag = "Ok"
         THEN Yield(data_proof.v.v)
         ELSE Return(Response(BAD_REQUEST, ShortCache,
                              ErrorBody(ErrToString(data_proof.v.e))))
    ELSE Return(Response(INTERNAL_SERVER_ERROR, ShortCache,
                         ErrorBody(ErrToString(data_proof.e))))

\* SuccinctMatch with the "no data" arm yielding an empty SuccinctAPIData
\* instead of returning the 500
SuccinctMatchDefaulting(succinct_response) ==
    IF succinct_response.tag = "Ok"
    THEN LET data == succinct_response.v IN
         IF data.tag = "Ok" /\ data.v.data.some
         THEN Yield(data.v.data.v)
         ELSE IF data.tag = "Ok" /\ data.v.success = Some(FALSE) /\ data.v.error.some
         THEN Return(Response(NOT_FOUND, ShortCache, ErrorBody(data.v.error.v)))
         ELSE IF data.tag = "Err"
         THEN Return(Response(INTERNAL_SERVER_ERROR, ShortCache,
                              ErrorBody(ErrToString(data.e))))
         ELSE Yield([range_hash |-> "", data_commitment |-> "",
                     merkle_branch |-> <<>>, index |-> 0])
    ELSE Return(Response(INTERNAL_SERVER_ERROR, ShortCache,
                         ErrorBody(ErrToString(succinct_response.e))))

\* match succinct_response { .. }: the arms are tried in the order written
SuccinctMatch(succinct_response) ==
    IF succinct_response.tag = "Ok"
    THEN LET data == succinct_response.v IN
         IF data.tag = "Ok" /\ data.v.data.some
         THEN Yield(data.v.data.v)
         ELSE IF data.tag = "Ok" /\ data.v.success = Some(FALSE) /\ data.v.error.some
         THEN Return(Response(NOT_FOUND, ShortCache, ErrorBody(data.v.error.v)))
         ELSE IF data.tag = "Err"
         THEN Return(Response(INTERNAL_SERVER_ERROR, ShortCache,
                              ErrorBody(ErrToString(data.e))))
         ELSE Return(Response(INTERNAL_SERVER_ERROR, ShortCache,
                              ErrorBody("Succinct API returned no data")))
    ELSE Return(Response(INTERNAL_SERVER_ERROR, ShortCache,
                         ErrorBody(ErrToString(succinct_response.e))))

\* json!(AggregatedResponse { .. }), camelCase field names
AggregatedResponse(data_proof_res, succinct_data, block_hash) ==
    [dataRootProof |-> succinct_data.merkle_branch,
     leafProof |-> data_proof_res.data_proof.proof,
     rangeHash |-> succinct_data.range_hash,
     dataRootIndex |-> succinct_data.index,
     leaf |-> data_proof_res.data_proof.leaf,
     leafIndex |-> data_proof_res.data_proof.leaf_index,
     dataRoot |-> data_proof_res.data_proof.data_root,
     blobRoot |-> data_proof_res.data_proof.blob_root,
     bridgeRoot |-> data_proof_res.data_proof.bridge_root,
     dataRootCommitment |-> succinct_data.data_commitment,
     blockHash |-> block_hash]

\* the handler's body after join!: the DA match comes first
EthProofResponse(data_proof, succinct_response, block_hash) ==
    LET dm == DataProofMatch(data_proof) IN
    IF dm.ret THEN dm.resp
    ELSE LET sm == SuccinctMatch(succinct_response) IN
         IF sm.ret THEN sm.resp
         ELSE Response(OK, LongCache, AggregatedResponse(dm.v, sm.v, block_hash))

\* the relay task's body: send, then json on success
SuccinctTaskBody(call) ==
    LET succinct_response == HttpSend(call) IN
    IF succinct_response.tag = "Ok" THEN HttpJson(succinct_response.v)
    ELSE succinct_response

NoTask == [st |-> "none"]
Running(call) == [st |-> "running", call |-> call]
Settled(call, out) == [st |-> "settled", call |-> call, out |-> out]

NoLocals ==
    [slot_storage_response |-> <<>>, timestamp_storage_response |-> <<>>,
     slot |-> <<>>, timestamp |-> <<>>, now |-> <<>>,
     settled_first |-> "none"]  \* which spawned task finished first (history)

\* the handler starts: both tasks are spawned, then join! awaits both
GetEthProofSpawn ==
    /\ handler = "idle"
    /\ \E block_hash \in BlockHashes, index \in Indexes,
          da_up \in {[tag |-> "result", v |-> k] : k \in KateResponses} \cup RpcFailures,
          relay_up \in {[tag |-> "body", v |-> s] : s \in SuccinctResponses}
                          \cup HttpFailures :
        LET da_call == Call("avail_client", "kate_queryDataProofV2",
                            <<index, block_hash>>, da_up)
            relay_call == Call("request_client", "GET succinct_base_url",
                               <<block_hash>>, relay_up)
        IN  /\ handler' = "get_eth_proof"
            /\ pc' = "join"
            /\ req' = [block_hash |-> block_hash, index |-> index]
            /\ da_task' = Running(da_call)
            /\ succinct_task' = Running(relay_call)
            /\ calls' = <<da_call, relay_call>>
    /\ UNCHANGED <<overflow_checks, pending, locals, resp>>

\* the DA task finishes (or is cancelled: its JoinHandle yields a JoinError)
DataProofTaskSettles ==
    /\ handler = "get_eth_proof" /\ da_task.st = "running"
    /\ Settles(da_task.call)
    /\ \E joined \in BOOLEAN :
         da_task' = Settled(da_task.call,
                            IF joined THEN Ok(RpcRequest(da_task.call))
                            ELSE Err("JoinError"))
    /\ locals' = IF locals.settled_first = "none"
                  THEN [locals EXCEPT !.settled_first = "data_proof"]
                  ELSE locals
    /\ UNCHANGED <<overflow_checks, handler, pc, req, succinct_task, pending,
                   calls, resp>>

\* the relay task finishes (or is cancelled)
SuccinctTaskSettles ==
    /\ handler = "get_eth_proof" /\ succinct_task.st = "running"
    /\ Settles(succinct_task.call)
    /\ \E joined \in BOOLEAN :
         succinct_task' = Settled(succinct_task.call,
                                  IF joined THEN Ok(SuccinctTaskBody(succinct_task.call))
                                  ELSE Err("JoinError"))
    /\ locals' = IF locals.settled_first = "none"
                  THEN [locals EXCEPT !.settled_first = "succinct"]
                  ELSE locals
    /\ UNCHANGED <<overflow_checks, handler, pc, req, da_task, pending,
                   calls, resp>>

\* GetEthProofJoin answering as soon as the relay task has settled with a
\* failure, without waiting for the DA task
GetEthProofJoinFirstFailure ==
    /\ handler = "get_eth_proof" /\ pc = "join"
    /\ succinct_task.st = "settled"
    /\ IF SuccinctMatch(succinct_task.out).ret
       THEN resp' = SuccinctMatch(succinct_task.out).resp
       ELSE /\ da_task.st = "settled"
            /\ resp' = EthProofResponse(da_task.out, succinct_task.out, req.block_hash)
    /\ pc' = "done"
    /\ UNCHANGED <<overflow_checks, handler, req, da_task, succinct_task,
                   pending, locals, calls>>

\* join! completes once both tasks have settled; the response is shaped
GetEthProofJoin ==
    /\ handler = "get_eth_proof" /\ pc = "join"
    /\ da_task.st = "settled" /\ succinct_task.st = "settled"
    /\ resp' = EthProofResponse(da_task.out, succinct_task.out, req.block_hash)
    /\ pc' = "done"
    /\ UNCHANGED <<overflow_checks, handler, req, da_task, succinct_task,
                   pending, locals, calls>>

(***************************************************************************)
(* get_avl_proof: GET /avl/proof/:message_id                               *)
(***************************************************************************)
\* Vec::swap_remove(index): panics when index >= len, otherwise takes the
\* element out and moves the last element into its place
SwapRemove(v, index) ==
    IF index >= Len(v)
    THEN Err("swap_remove index should be < len")
    ELSE Ok([removed |-> v[index + 1],
             vec |-> [i \in 1..(Len(v) - 1) |->
                        IF i = index + 1 THEN v[Len(v)] ELSE v[i]]])

\* match proof { .. }
AvlProofResponse(proof) ==
    IF proof.tag = "Ok"
    THEN LET removed == SwapRemove(proof.v.storage_proof, 0) IN
         IF removed.tag = "Err" THEN Aborted(removed.e)
         ELSE Response(OK, LongCache,
                       [accountProof |-> proof.v.account_proof,
                        storageProof |-> removed.v.removed.proof])
    ELSE Response(INTERNAL_SERVER_ERROR, ShortCache,
                  ErrorBody(ErrToString(proof.e)))

\* the handler starts: the slot key is derived and eth_getProof is requested
GetAvlProofRequest ==
    /\ handler = "idle"
    /\ \E message_id \in MessageIds,
          up \in {[tag |-> "result", v |-> r] : r \in AccountStorageProofResponses}
                    \cup RpcFailures :
        LET call == Call("ethereum_client", "eth_getProof",
                         <<"0x8F8d47bF15953E26c622F36F3366e43e26B9b78b",
                           <<MappingSlotKey(message_id)>>, "finalized">>, up)
        IN  /\ handler' = "get_avl_proof"
            /\ pc' = "proof"
            /\ req' = [message_id |-> message_id]
            /\ pending' = call
            /\ calls' = <<call>>
    /\ UNCHANGED <<overflow_checks, da_task, succinct_task, locals, resp>>

\* the request completes and the response is shaped
GetAvlProofRespond ==
    /\ handler = "get_avl_proof" /\ pc = "proof"
    /\ Settles(pending)
    /\ resp' = AvlProofResponse(RpcRequest(pending))
    /\ pc' = "done"
    /\ pending' = NoCall
    /\ UNCHANGED <<overflow_checks, handler, req, da_task, succinct_task,
                   locals, calls>>

(***************************************************************************)
(* get_beacon_slot: GET /beacon/slot/:slot_number                          *)
(***************************************************************************)
\* match resp { .. }
BeaconSlotResponse(sent) ==
    IF sent.tag = "Ok"
    THEN LET response_data == HttpJson(sent.v) IN
         IF response_data.tag = "Ok"
         THEN IF response_data.v.status = "OK"
              THEN Response(OK, LongCache,
                            [blockNumber |-> response_data.v.data.exec_block_number])
              ELSE Response(INTERNAL_SERVER_ERROR, ShortCache,
                            ErrorBody("Cannot fetch slot data"))
         ELSE Response(INTERNAL_SERVER_ERROR, ShortCache,
                       ErrorBody(ErrToString(response_data.e)))
    ELSE Response(INTERNAL_SERVER_ERROR, ShortCache, ErrorBody(ErrToString(sent.e)))

BeaconUpstream == {[tag |-> "body", v |-> b] : b \in BeaconResponses} \cup HttpFailures

GetBeaconSlotRequest ==
    /\ handler = "idle"
    /\ \E slot \in Slots, up \in BeaconUpstream :
        LET call == Call("request_client", "GET beaconchain_base_url", <<slot>>, up)
        IN  /\ handler' = "get_beacon_slot"
            /\ pc' = "slot"
            /\ req' = [slot |-> slot]
            /\ pending' = call
            /\ calls' = <<call>>
    /\ UNCHANGED <<overflow_checks, da_task, succinct_task, locals, resp>>

GetBeaconSlotRespond ==
    /\ handler = "get_beacon_slot" /\ pc = "slot"
    /\ Settles(pending)
    /\ resp' = BeaconSlotResponse(HttpSend(pending))
    /\ pc' = "done"
    /\ pending' = NoCall
    /\ UNCHANGED <<overflow_checks, handler, req, da_task, succinct_task,
                   locals, calls>>

(***************************************************************************)
(* get_avl_head: GET /avl/head                                             *)
(***************************************************************************)
\* match response { .. }
AvlHeadResponse(sent) ==
    IF sent.tag = "Ok"
    THEN LET range_response == HttpJson(sent.v) IN
         IF range_response.tag = "Ok"
         THEN Response(OK, LongCache, range_response.v)
         ELSE Response(INTERNAL_SERVER_ERROR, ShortCache,
                       ErrorBody(ErrToString(range_response.e)))
    ELSE Response(INTERNAL_SERVER_ERROR, ShortCache, ErrorBody(ErrToString(sent.e)))

GetAvlHeadRequest ==
    /\ handler = "idle"
    /\ \E up \in {[tag |-> "body", v |-> r] : r \in RangeResponses} \cup HttpFailures :
        LET call == Call("request_client", "GET succinct_base_url/range", <<>>, up)
        IN  /\ handler' = "get_avl_head"
            /\ pc' = "range"
            /\ req' = [none |-> TRUE]
            /\ pending' = call
            /\ calls' = <<call>>
    /\ UNCHANGED <<overflow_checks, da_task, succinct_task, locals, resp>>

GetAvlHeadRespond ==
    /\ handler = "get_avl_head" /\ pc = "range"
    /\ Settles(pending)
    /\ resp' = AvlHeadResponse(HttpSend(pending))
    /\ pc' = "done"
    /\ pending' = NoCall
    /\ UNCHANGED <<overflow_checks, handler, req, da_task, succinct_task,
                   locals, calls>>

(***************************************************************************)
(* alive: GET /                                                            *)
(***************************************************************************)
Alive ==
    /\ handler = "idle"
    /\ handler' = "alive"
    /\ pc' = "done"
    /\ req' = [none |-> TRUE]
    /\ calls' = <<>>
    /\ resp' = Response(OK, NoCacheHeader, [name |-> "Avail Bridge API"])
    /\ UNCHANGED <<overflow_checks, da_task, succinct_task, pending, locals>>

(***************************************************************************)
(* get_eth_head: GET /eth/head                                             *)
(***************************************************************************)
\* the four unwraps that decode the two storage values, in the order written:
\* the first Err is the panic
DecodeHead(slot_storage_response, timestamp_storage_response) ==
    LET slot_from_hex == FromHex(slot_storage_response) IN
    IF slot_from_hex.tag = "Err" THEN slot_from_hex
    ELSE LET slot == DecodeU64(slot_from_hex.v) IN
    IF slot.tag = "Err" THEN slot
    ELSE LET timestamp_from_hex == FromHex(timestamp_storage_response) IN
    IF timestamp_from_hex.tag = "Err" THEN timestamp_from_hex
    ELSE LET timestamp == DecodeU64(timestamp_from_hex.v) IN
    IF timestamp.tag = "Err" THEN timestamp
    ELSE Ok([slot |-> slot.v, timestamp |-> timestamp.v])

\* json!(HeadResponse { .. }), camelCase field names
HeadResponse(slot, timestamp, timestamp_diff, eth_block_number) ==
    [slot |-> slot, ethBlockNumber |-> eth_block_number,
     timestamp |-> timestamp, timestampDiff |-> timestamp_diff]

\* match resp { .. } on the beacon lookup
EthHeadResponse(sent, slot, timestamp, now, checks) ==
    IF sent.tag = "Ok"
    THEN LET response_data == HttpJson(sent.v) IN
         IF response_data.tag = "Ok"
         THEN LET timestamp_diff == SubU64(now, timestamp, checks) IN
              IF timestamp_diff.tag = "Err" THEN Aborted(timestamp_diff.e)
              ELSE Response(OK, LongCache,
                            HeadResponse(slot, timestamp, timestamp_diff.v,
                                         response_data.v.data.exec_block_number))
         ELSE Response(INTERNAL_SERVER_ERROR, ShortCache,
                       ErrorBody("Cannot get beacon api response"))
    ELSE Response(INTERNAL_SERVER_ERROR, ShortCache, ErrorBody(ErrToString(sent.e)))

StorageUpstream(values) == {[tag |-> "result", v |-> s] : s \in values} \cup RpcFailures

\* the handler starts: the Head key is derived and read
GetEthHeadRequest ==
    /\ handler = "idle"
    /\ \E up \in StorageUpstream(HeadStorageValues) :
        LET call == Call("avail_client", "state_getStorage", <<HeadKey>>, up)
        IN  /\ handler' = "get_eth_head"
            /\ pc' = "head"
            /\ req' = [none |-> TRUE]
            /\ pending' = call
            /\ calls' = <<call>>
    /\ UNCHANGED <<overflow_checks, da_task, succinct_task, locals, resp>>

\* match head_response { .. }: on Ok the timestamp key is formed and read
GetEthHeadOnHead ==
    /\ handler = "get_eth_head" /\ pc = "head"
    /\ Settles(pending)
    /\ LET head_response == RpcRequest(pending) IN
       IF head_response.tag = "Err"
       THEN /\ resp' = Response(INTERNAL_SERVER_ERROR, ShortCache,
                                ErrorBody(ErrToString(head_response.e)))
            /\ pc' = "done"
            /\ pending' = NoCall
            /\ UNCHANGED <<locals, calls>>
       ELSE LET timestamp_key == TimestampKey(head_response.v) IN
            IF timestamp_key.tag = "Err"
            THEN /\ resp' = Aborted(timestamp_key.e)
                 /\ pc' = "done"
                 /\ pending' = NoCall
                 /\ UNCHANGED <<locals, calls>>
            ELSE \E up \in StorageUpstream(TimestampStorageValues) :
                   LET call == Call("avail_client", "state_getStorage",
                                    <<timestamp_key.v>>, up)
                   IN  /\ pending' = call
                       /\ calls' = Append(calls, call)
                       /\ locals' = [locals EXCEPT
                                       !.slot_storage_response = head_response.v]
                       /\ pc' = "timestamp"
                       /\ UNCHANGED resp
    /\ UNCHANGED <<overflow_checks, handler, req, da_task, succinct_task>>

\* match timestamp_response { .. }: on Ok both values are decoded and the
\* beacon lookup for the slot is sent
GetEthHeadOnTimestamp ==
    /\ handler = "get_eth_head" /\ pc = "timestamp"
    /\ Settles(pending)
    /\ LET timestamp_response == RpcRequest(pending) IN
       IF timestamp_response.tag = "Err"
       THEN /\ resp' = Response(INTERNAL_SERVER_ERROR, ShortCache,
                                ErrorBody(ErrToString(timestamp_response.e)))
            /\ pc' = "done"
            /\ pending' = NoCall
            /\ UNCHANGED <<locals, calls>>
       ELSE LET decoded == DecodeHead(locals.slot_storage_response,
                                      timestamp_response.v) IN
            IF decoded.tag = "Err"
            THEN /\ resp' = Aborted(decoded.e)
                 /\ pc' = "done"
                 /\ pending' = NoCall
                 /\ locals' = [locals EXCEPT
                                 !.timestamp_storage_response = timestamp_response.v]
                 /\ UNCHANGED calls
            ELSE \E up \in BeaconUpstream :
                   LET call == Call("request_client", "GET beaconchain_base_url",
                                    <<decoded.v.slot>>, up)
                   IN  /\ pending' = call
                       /\ calls' = Append(calls, call)
                       /\ locals' = [locals EXCEPT
                                       !.timestamp_storage_response = timestamp_response.v,
                                       !.slot = decoded.v.slot,
                                       !.timestamp = decoded.v.timestamp]
                       /\ pc' = "beacon"
                       /\ UNCHANGED resp
    /\ UNCHANGED <<overflow_checks, handler, req, da_task, succinct_task>>

\* the beacon lookup completes: the clock is read and the head is shaped
GetEthHeadOnBeacon ==
    /\ handler = "get_eth_head" /\ pc = "beacon"
    /\ Settles(pending)
    /\ \E now \in Nows :
         /\ resp' = EthHeadResponse(HttpSend(pending), locals.slot,
                                    locals.timestamp, now, overflow_checks)
         /\ locals' = [locals EXCEPT !.now = now]
    /\ pc' = "done"
    /\ pending' = NoCall
    /\ UNCHANGED <<overflow_checks, handler, req, da_task, succinct_task, calls>>

(***************************************************************************)
(* The server.                                                             *)
(***************************************************************************)
\* the request is over (answered, or dropped by the panic); the next one
\* starts from the same shared state
Finish ==
    /\ pc = "done"
    /\ handler' = "idle"
    /\ pc' = "idle"
    /\ req' = [none |-> TRUE]
    /\ da_task' = NoTask
    /\ succinct_task' = NoTask
    /\ pending' = NoCall
    /\ locals' = NoLocals
    /\ calls' = <<>>
    /\ resp' = NoResponse
    /\ UNCHANGED overflow_checks

Init ==
    /\ overflow_checks \in BOOLEAN
    /\ handler = "idle"
    /\ pc = "idle"
    /\ req = [none |-> TRUE]
    /\ da_task = NoTask
    /\ succinct_task = NoTask
    /\ pending = NoCall
    /\ locals = NoLocals
    /\ calls = <<>>
    /\ resp = NoResponse

Next ==
    \/ Alive
    \/ GetEthProofSpawn
    \/ DataProofTaskSettles
    \/ SuccinctTaskSettles
    \/ GetEthProofJoin
    \/ GetAvlProofRequest
    \/ GetAvlProofRespond
    \/ GetBeaconSlotRequest
    \/ GetBeaconSlotRespond
    \/ GetEthHeadRequest
    \/ GetEthHeadOnHead
    \/ GetEthHeadOnTimestamp
    \/ GetEthHeadOnBeacon
    \/ GetAvlHeadRequest
    \/ GetAvlHeadRespond
    \/ Finish

Spec == Init /\ [][Next]_vars

(***************************************************************************)
(* Properties.                                                             *)
(***************************************************************************)
Done(h) == handler = h /\ pc = "done"
Sent == resp.kind = "sent"

BundleFields ==
    {"dataRootProof", "leafProof", "rangeHash", "dataRootIndex", "leaf",
     "leafIndex", "dataRoot", "blobRoot", "bridgeRoot", "dataRootCommitment",
     "blockHash"}

\* what the upstreams did, read off the calls rather than off the handler
DaBranchSucceeded ==
    da_task.out.tag = "Ok" /\ da_task.call.up.tag = "result"
RelayBranchSucceeded ==
    /\ succinct_task.out.tag = "Ok"
    /\ succinct_task.call.up.tag = "body"
    /\ succinct_task.call.up.v.data.some

C2_DaFailureClassified ==
    (Done("get_eth_proof") /\ da_task.out.tag = "Ok") =>
      /\ da_task.call.up.tag \in {"unreachable", "hang"} =>
           Sent /\ resp.status = INTERNAL_SERVER_ERROR /\ resp.cache = ShortCache
      /\ da_task.call.up.tag = "error_object" =>
           Sent /\ resp.status = BAD_REQUEST /\ resp.cache = ShortCache

\* C3: in get_eth_proof, with the DA branch successful, every relay payload
\* with success == false is answered 404 with the payload's error message as
\* the body's error, whatever its data and error fields hold.
C3_RelayFailureIsNotFound ==
    ( /\ Done("get_eth_proof")
      /\ DaBranchSucceeded
      /\ succinct_task.out.tag = "Ok"
      /\ succinct_task.call.up.tag = "body"
      /\ succinct_task.call.up.v.success = Some(FALSE) ) =>
      /\ Sent
      /\ resp.status = NOT_FOUND
      /\ succinct_task.call.up.v.error.some =>
           resp.body = ErrorBody(succinct_task.call.up.v.error.v)

\* C4: get_avl_proof returns as storageProof the proof of entry 0 of the
\* upstream's storage proofs when there is at least one entry, and answers
\* with an error response when there is none.
C4_FirstStorageProof ==
    (Done("get_avl_proof") /\ calls[1].up.tag = "result") =>
      LET storage_proof == calls[1].up.v.storage_proof IN
      IF Len(storage_proof) >= 1
      THEN /\ Sent /\ resp.status = OK
           /\ resp.body.storageProof = storage_proof[1].proof
      ELSE /\ Sent /\ resp.status # OK
           /\ "error" \in DOMAIN resp.body

\* the beacon lookup of the current request and its body, when it has one
BeaconCall == calls[Len(calls)]
BeaconAnsweredNotOk ==
    /\ \/ Done("get_beacon_slot")
       \/ Done("get_eth_head") /\ Len(calls) = 3
    /\ BeaconCall.up.tag = "body"
    /\ BeaconCall.up.v.status # "OK"

\* C5: when the beacon lookup answers with a body whose status is not "OK",
\* neither get_beacon_slot nor get_eth_head answers with a success.
C5_BeaconStatusAuthoritative ==
    BeaconAnsweredNotOk => ~(Sent /\ resp.status = OK)

\* a JSON number: sign and magnitude (the magnitude as 8 little-endian bytes)
JsonU64(x) == [negative |-> FALSE, magnitude |-> x]
ExactDifference(a, b) ==
    IF LtU64(a, b)
    THEN [negative |-> TRUE, magnitude |-> SubBytes(b, a, 0).val]
    ELSE [negative |-> FALSE, magnitude |-> SubBytes(a, b, 0).val]

\* get_eth_head got as far as computing the difference
HeadComputed ==
    /\ Done("get_eth_head") /\ Len(calls) = 3
    /\ calls[3].up.tag = "body"

\* C6: whenever get_eth_head computes the head, it answers 200 and the
\* reported timestampDiff is the exact difference now - timestamp, negative
\* when the timestamp lies in the future.
C6_TimestampDiffExact ==
    HeadComputed =>
      /\ Sent /\ resp.status = OK
      /\ JsonU64(resp.body.timestampDiff) =
           ExactDifference(locals.now, locals.timestamp)

\* a raw storage value that is not "0x" followed by at least 8 bytes of hex
MalformedU64(s) ==
    \/ ~HasPrefix0x(s)
    \/ \E i \in 3..Len(s) : ~IsHexDigit(s[i])
    \/ Len(s) - 2 < 16

\* some step of get_eth_head failed: a read, a raw value, or the lookup
HeadStepFailed ==
    \/ calls[1].up.tag # "result"
    \/ MalformedU64(calls[1].up.v)
    \/ Len(calls) >= 2 /\ calls[2].up.tag # "result"
    \/ Len(calls) >= 2 /\ calls[2].up.tag = "result" /\ MalformedU64(calls[2].up.v)
    \/ Len(calls) >= 3 /\ calls[3].up.tag # "body"

\* C7: a failure at any step of get_eth_head ends the request with a shaped
\* error response (500 with an error body), never with a panic or a head.
C7_HeadFailuresShaped ==
    (Done("get_eth_head") /\ HeadStepFailed) =>
      /\ Sent
      /\ resp.status = INTERNAL_SERVER_ERROR
      /\ DOMAIN resp.body = {"error"}

\* the upstream calls the current request is waiting for
InFlight ==
    (IF pending.client # "none" THEN {pending} ELSE {})
      \cup (IF da_task.st = "running" THEN {da_task.call} ELSE {})
      \cup (IF succinct_task.st = "running" THEN {succinct_task.call} ELSE {})

\* C8: every upstream call in flight completes, answered or timed out, so a
\* request in progress can always take a step; a request whose only failure is
\* a timeout is answered 500; no call is issued twice for one request.
C8_UpstreamCallsBounded ==
    /\ \A call \in InFlight : Settles(call)
    /\ (pc \notin {"idle", "done"}) => ENABLED Next
    /\ (pc = "done" /\ \E i \in 1..Len(calls) :
                          calls[i].up.tag = "hang"
                          /\ \A j \in 1..Len(calls) : j # i => calls[j].up.tag \in {"result", "body"})
         => (Sent => resp.status = INTERNAL_SERVER_ERROR)
    /\ \A i, j \in 1..Len(calls) :
         (calls[i].method = calls[j].method /\ calls[i].params = calls[j].params)
           => i = j

\* the body get_eth_head would have sent had the clock read n
HeadBodyAt(n) ==
    HeadResponse(locals.slot, locals.timestamp,
                 SubBytes(n, locals.timestamp, 0).val,
                 calls[3].up.v.data.exec_block_number)

\* the body of the success depends on when the request was made
TransientSuccess ==
    /\ HeadComputed /\ Sent /\ resp.status = OK
    /\ \E n \in Nows : HeadBodyAt(n) # resp.body

\* C9: every error response carries the short cache directive, and the long
\* one goes only to successes whose body does not depend on the request time.
C9_CacheByOutcome ==
    Sent =>
      /\ resp.status # OK => resp.cache = ShortCache
      /\ resp.cache = LongCache => resp.status = OK /\ ~TransientSuccess
      /\ TransientSuccess => resp.cache = ShortCache

\* "0x" followed by whole bytes of hex
EncodesBytes(s) ==
    /\ HasPrefix0x(s)
    /\ \A i \in 3..Len(s) : IsHexDigit(s[i])
    /\ Len(s) % 2 = 0

\* C10: in get_eth_head the second state_getStorage is issued only after the
\* first returned a value, and its key is the ("Succinct","Timestamps") pallet
\* key followed by exactly the bytes the first read returned (so different
\* values give different keys); the beacon lookup is issued only after both
\* reads returned; after a failed first read nothing else is issued.
C10_DependentRead ==
    /\ handler = "get_eth_head" =>
         /\ calls[1].params = <<HeadKey>>
         /\ calls[1].up.tag # "result" => Len(calls) = 1
         /\ pc = "head" => Len(calls) = 1
         /\ Len(calls) >= 2 =>
              /\ calls[1].up.tag = "result"
              /\ calls[2].method = "state_getStorage"
              /\ LET first == calls[1].up.v
                     key == calls[2].params[1]
                 IN  EncodesBytes(first) =>
                       FromHex(key) = Ok(Twox128("Succinct") \o Twox128("Timestamps")
                                           \o FromHex(first).v)
         /\ Len(calls) >= 3 =>
              /\ calls[2].up.tag = "result"
              /\ calls[3].method = "GET beaconchain_base_url"
    /\ \A s1, s2 \in {s \in HeadStorageValues : EncodesBytes(s)} :
         s1 # s2 => TimestampKey(s1) # TimestampKey(s2)

\* the second read is in flight, keyed by the value the first read returned
C10_Witness ==
    /\ handler = "get_eth_head" /\ pc = "timestamp"
    /\ calls[1].up.tag = "result" /\ calls[1].up.v = HeadSlot101
    /\ calls[2].params[1] = PalletKey("Succinct", "Timestamps")
                              \o HexEncode(<<101, 0, 0, 0, 0, 0, 0, 0>>)

\* the failure of a settled DA task: the join error, or the request's error
DaFailure ==
    IF da_task.out.tag = "Err" THEN da_task.out.e ELSE da_task.out.v.e

\* the DA task settled with the node's result
DaSettledOk == da_task.out.tag = "Ok" /\ da_task.out.v.tag = "Ok"

\* what a response says when it reports a failure of the relay branch alone
RelayOnlyErrors ==
    {"Succinct API returned no data", "range not found",
     ErrToString("send"), ErrToString("decode")}

\* C11: get_eth_proof responds only after both spawned tasks have settled, in
\* whichever order they settle; when the DA task failed the response is the
\* DA failure (400 for the request's error, 500 for a join error, with that
\* error's message), also when the relay task failed too; a relay failure
\* (404, or a relay-only message) is reported only when the DA task succeeded.
C11_JoinThenDaFirst ==
    handler = "get_eth_proof" =>
      /\ resp.kind # "none" =>
           da_task.st = "settled" /\ succinct_task.st = "settled"
      /\ pc = "done" =>
           /\ Sent
           /\ ~DaSettledOk =>
                /\ resp.status = IF da_task.out.tag = "Err"
                                 THEN INTERNAL_SERVER_ERROR ELSE BAD_REQUEST
                /\ resp.body = ErrorBody(ErrToString(DaFailure))
           /\ ( \/ resp.status = NOT_FOUND
                \/ /\ resp.status = INTERNAL_SERVER_ERROR
                   /\ resp.body.error \in RelayOnlyErrors )
                => DaSettledOk

\* both branches failed, the relay task settled first, the DA failure is
\* what the response reports
C11_Witness ==
    /\ Done("get_eth_proof")
    /\ locals.settled_first = "succinct"
    /\ ~DaSettledOk /\ da_task.out.tag = "Ok"
    /\ succinct_task.call.up.tag = "unreachable" /\ succinct_task.out.tag = "Ok"
    /\ Sent /\ resp.status = BAD_REQUEST

====
